---------------------------- MODULE Spec2Model ----------------------------
(***************************************************************************)
(* secure-file-validator (src/index.js): checkFileSignature,               *)
(* validateFileContent and validateFile, modelled over a one-file file     *)
(* system.                                                                 *)
(*                                                                         *)
(* A buffer is a record [bytes, pad]: the bytes `bytes` followed by `pad`  *)
(* NUL bytes.  The run of NULs lets a file of several MiB be written down; *)
(* every operator below treats it exactly as that many 0x00 bytes.         *)
(* A JavaScript string is a record [chars, pad] in the same way, `chars`   *)
(* being UTF-16 code units.                                                *)
(* A value that may be `undefined` is a sequence of length 0 or 1.         *)
(***************************************************************************)
EXTENDS Integers, Sequences, FiniteSets, TLC

VARIABLES
    file,      \* the file system entry every path resolves to
    pc,        \* position of the caller / of the async function in flight
    call,      \* arguments of the call in flight: [api, path, options]
    result,    \* how the call ended: [kind, status, message]
    seen,      \* what stat and readFile settled to during the call
    history    \* the calls that returned, each with its verdict, as an
               \* observer of successive calls notes them

vars == <<file, pc, call, result, seen, history>>

Undefined == <<>>
Some(v) == <<v>>

Min(a, b) == IF a < b THEN a ELSE b

(***************************************************************************)
(* Buffers                                                                 *)
(***************************************************************************)
\* buffer.length
BufLen(buffer) == Len(buffer.bytes) + buffer.pad

\* buffer[index], index counted from 0; undefined past the end
BufAt(buffer, index) ==
    IF index < Len(buffer.bytes) THEN Some(buffer.bytes[index + 1])
    ELSE IF index < BufLen(buffer) THEN Some(0)
    ELSE Undefined

FILE_SIGNATURES ==
    [ JPEG |-> << <<255, 216, 255, 224>>,      \* FF D8 FF E0  JPEG/JFIF
                  <<255, 216, 255, 225>> >>,   \* FF D8 FF E1  JPEG/Exif
      PNG  |-> << <<137, 80, 78, 71>> >>,      \* 89 50 4E 47
      GIF  |-> << <<71, 73, 70, 56>> >>,       \* 47 49 46 38  GIF8
      PDF  |-> << <<37, 80, 68, 70>> >>,       \* 25 50 44 46  %PDF
      SVG  |-> << <<60, 63, 120, 109, 108>>,   \* <?xml
                  <<60, 115, 118, 103>> >> ]   \* <svg

\* signature.every((byte, index) => buffer[index] === byte)
SignatureEvery(buffer, signature) ==
    \A index \in 0..(Len(signature) - 1) :
        BufAt(buffer, index) = Some(signature[index + 1])

\* A slip in the comparison: positions past the end of the buffer are not
\* compared at all.
checkFileSignature_NoLengthGuard(buffer, signatures) ==
    \E k \in 1..Len(signatures) :
        \A index \in 0..(Len(signatures[k]) - 1) :
            BufAt(buffer, index) = Undefined
            \/ BufAt(buffer, index) = Some(signatures[k][index + 1])

\* signatures.some(signature => signature.every(...))
checkFileSignature(buffer, signatures) ==
    \E k \in 1..Len(signatures) : SignatureEvery(buffer, signatures[k])

(***************************************************************************)
(* Buffer.prototype.toString(): UTF-8 decoding, every maximal ill-formed   *)
(* subsequence replaced by U+FFFD; code points above U+FFFF become a       *)
(* surrogate pair.                                                         *)
(***************************************************************************)
IsCont(bytes, j, lo, hi) == j <= Len(bytes) /\ bytes[j] >= lo /\ bytes[j] <= hi

\* number of continuation bytes a lead byte asks for (0: not a lead byte)
Utf8Needed(b) ==
    IF b >= 194 /\ b <= 223 THEN 1
    ELSE IF b >= 224 /\ b <= 239 THEN 2
    ELSE IF b >= 240 /\ b <= 244 THEN 3
    ELSE 0

\* range allowed for the first continuation byte after lead byte b
Utf8Lower(b) == IF b = 224 THEN 160 ELSE IF b = 240 THEN 144 ELSE 128
Utf8Upper(b) == IF b = 237 THEN 159 ELSE IF b = 244 THEN 143 ELSE 191

\* how many of the bytes after position i continue the sequence begun there
Utf8Seen(bytes, i) ==
    LET b == bytes[i]
        n == Utf8Needed(b)
    IN  IF n = 0 \/ ~IsCont(bytes, i + 1, Utf8Lower(b), Utf8Upper(b)) THEN 0
        ELSE IF n = 1 \/ ~IsCont(bytes, i + 2, 128, 191) THEN 1
        ELSE IF n = 2 \/ ~IsCont(bytes, i + 3, 128, 191) THEN 2
        ELSE 3

Utf8CodePoint(bytes, i, n) ==
    IF n = 1 THEN (bytes[i] - 192) * 64 + (bytes[i + 1] - 128)
    ELSE IF n = 2 THEN (bytes[i] - 224) * 4096 + (bytes[i + 1] - 128) * 64
                       + (bytes[i + 2] - 128)
    ELSE (bytes[i] - 240) * 262144 + (bytes[i + 1] - 128) * 4096
         + (bytes[i + 2] - 128) * 64 + (bytes[i + 3] - 128)

Utf16Units(cp) ==
    IF cp < 65536 THEN <<cp>>
    ELSE << 55296 + ((cp - 65536) \div 1024), 56320 + ((cp - 65536) % 1024) >>

RECURSIVE Utf8From(_, _)
Utf8From(bytes, i) ==
    IF i > Len(bytes) THEN <<>>
    ELSE LET b == bytes[i]
             n == Utf8Needed(b)
             got == Utf8Seen(bytes, i)
         IN  IF b < 128 THEN <<b>> \o Utf8From(bytes, i + 1)
             ELSE IF n > 0 /\ got = n
                  THEN Utf16Units(Utf8CodePoint(bytes, i, n))
                       \o Utf8From(bytes, i + n + 1)
                  ELSE <<65533>> \o Utf8From(bytes, i + got + 1)

\* fileBuffer.toString(); a NUL byte decodes to U+0000
BufferToString(buffer) == [chars |-> Utf8From(buffer.bytes, 1), pad |-> buffer.pad]

(***************************************************************************)
(* Strings                                                                 *)
(***************************************************************************)
StrLen(s) == Len(s.chars) + s.pad

\* the code unit at position i (from 1), for 1 <= i <= StrLen(s)
CharAt(s, i) == IF i <= Len(s.chars) THEN s.chars[i] ELSE 0

\* WhiteSpace and LineTerminator of ECMAScript: what trim() strips and what
\* \s matches
IsWhiteSpace(c) ==
    \/ c \in {9, 10, 11, 12, 13, 32, 160, 5760, 8232, 8233, 8239, 8287, 12288, 65279}
    \/ (c >= 8192 /\ c <= 8202)

RECURSIVE TrimStartSeq(_)
TrimStartSeq(cs) ==
    IF cs # <<>> /\ IsWhiteSpace(Head(cs)) THEN TrimStartSeq(Tail(cs)) ELSE cs

RECURSIVE TrimEndSeq(_)
TrimEndSeq(cs) ==
    IF cs # <<>> /\ IsWhiteSpace(cs[Len(cs)])
    THEN TrimEndSeq(SubSeq(cs, 1, Len(cs) - 1)) ELSE cs

\* String.prototype.trim(); U+0000 is not white space, so a trailing run of
\* NULs ends the string as it is
Trim(s) ==
    IF s.pad > 0 THEN [chars |-> TrimStartSeq(s.chars), pad |-> s.pad]
    ELSE [chars |-> TrimEndSeq(TrimStartSeq(s.chars)), pad |-> 0]

\* does the literal lit stand at position i of s; ci: ignoring ASCII case
Canon(c) == IF c >= 97 /\ c <= 122 THEN c - 32 ELSE c

SameChar(ci, a, b) == IF ci THEN Canon(a) = Canon(b) ELSE a = b

LitAt(s, i, lit, ci) ==
    /\ i >= 1
    /\ i + Len(lit) - 1 <= StrLen(s)
    /\ \A k \in 1..Len(lit) : SameChar(ci, CharAt(s, i + k - 1), lit[k])

\* Every literal searched for below holds a character other than U+0000, so
\* no match begins inside the trailing run of NULs: a search tries the
\* positions of chars and the first position of the run.
SearchEnd(s) == Len(s.chars) + Min(s.pad, 1)

\* String.prototype.startsWith / includes
StartsWith(s, lit) == LitAt(s, 1, lit, FALSE)
Includes(s, lit) == \E i \in 1..SearchEnd(s) : LitAt(s, i, lit, FALSE)


(***************************************************************************)
(* Regular expressions.  Every pattern of the source is a literal,         *)
(* optionally preceded by the class [^a-z], optionally followed by a       *)
(* starred class (white space, or anything but ">") and a second literal.  *)
(* It is kept as [src, lead, lit, gap, tail, ci]: src is what the template *)
(* literal prints for the pattern, lead says whether [^a-z] comes first,   *)
(* ci is the i flag.  No pattern has the g or y flag, so test() keeps no   *)
(* state.                                                                  *)
(***************************************************************************)
Rx(src, lit) ==
    [src |-> src, lead |-> FALSE, lit |-> lit, gap |-> "", tail |-> <<>>, ci |-> TRUE]

RxCaseSensitive(src, lit) ==
    [src |-> src, lead |-> FALSE, lit |-> lit, gap |-> "", tail |-> <<>>, ci |-> FALSE]

suspiciousPatterns ==
    << Rx("/<script/i", <<60, 115, 99, 114, 105, 112, 116>>),
       Rx("/javascript:/i", <<106, 97, 118, 97, 115, 99, 114, 105, 112, 116, 58>>),
       Rx("/<\\?php/i", <<60, 63, 112, 104, 112>>),
       Rx("/eval\\(/i", <<101, 118, 97, 108, 40>>),
       Rx("/exec\\(/i", <<101, 120, 101, 99, 40>>),
       Rx("/system\\(/i", <<115, 121, 115, 116, 101, 109, 40>>),
       [src |-> "/function\\s*\\(/i", lead |-> FALSE,
        lit |-> <<102, 117, 110, 99, 116, 105, 111, 110>>,
        gap |-> "\\s*", tail |-> <<40>>, ci |-> TRUE],
       Rx("/setTimeout/i", <<115, 101, 116, 84, 105, 109, 101, 111, 117, 116>>),
       Rx("/setInterval/i", <<115, 101, 116, 73, 110, 116, 101, 114, 118, 97, 108>>),
       Rx("/onload/i", <<111, 110, 108, 111, 97, 100>>),
       Rx("/onerror/i", <<111, 110, 101, 114, 114, 111, 114>>),
       Rx("/ActiveXObject/i", <<65, 99, 116, 105, 118, 101, 88, 79, 98, 106, 101, 99, 116>>) >>

svgSuspiciousPatterns ==
    << Rx("/xlink:href/i", <<120, 108, 105, 110, 107, 58, 104, 114, 101, 102>>),
       [src |-> "/[^a-z]href=/i", lead |-> TRUE, lit |-> <<104, 114, 101, 102, 61>>,
        gap |-> "", tail |-> <<>>, ci |-> TRUE],
       Rx("/data:/i", <<100, 97, 116, 97, 58>>),
       Rx("/import/i", <<105, 109, 112, 111, 114, 116>>),
       Rx("/foreignObject/i", <<102, 111, 114, 101, 105, 103, 110, 79, 98, 106, 101, 99, 116>>),
       Rx("/onload/i", <<111, 110, 108, 111, 97, 100>>),
       Rx("/onclick/i", <<111, 110, 99, 108, 105, 99, 107>>),
       Rx("/onmouseover/i", <<111, 110, 109, 111, 117, 115, 101, 111, 118, 101, 114>>),
       Rx("/<!ENTITY/i", <<60, 33, 69, 78, 84, 73, 84, 89>>),
       Rx("/<!DOCTYPE/i", <<60, 33, 68, 79, 67, 84, 89, 80, 69>>) >>

pdfSuspiciousPatterns ==
    << [pattern |-> RxCaseSensitive("/OpenAction/", <<79, 112, 101, 110, 65, 99, 116, 105, 111, 110>>),
        name |-> "OpenAction"],
       [pattern |-> RxCaseSensitive("/JavaScript/", <<74, 97, 118, 97, 83, 99, 114, 105, 112, 116>>),
        name |-> "JavaScript"],
       [pattern |-> RxCaseSensitive("/JS/", <<74, 83>>), name |-> "JS"],
       [pattern |-> RxCaseSensitive("/Launch/", <<76, 97, 117, 110, 99, 104>>),
        name |-> "Launch"],
       [pattern |-> RxCaseSensitive("/EmbeddedFile/", <<69, 109, 98, 101, 100, 100, 101, 100, 70, 105, 108, 101>>),
        name |-> "EmbeddedFile"],
       [pattern |-> RxCaseSensitive("/XFA/", <<88, 70, 65>>), name |-> "XFA"],
       [pattern |-> RxCaseSensitive("/Annots/", <<65, 110, 110, 111, 116, 115>>),
        name |-> "Annots"],
       [pattern |-> RxCaseSensitive("/Metadata/", <<77, 101, 116, 97, 100, 97, 116, 97>>),
        name |-> "Metadata"] >>

\* the open tag of an svg element
SvgTagPattern ==
    [src |-> "/<svg[^>]*>/i", lead |-> FALSE, lit |-> <<60, 115, 118, 103>>,
     gap |-> "[^>]*", tail |-> <<62>>, ci |-> TRUE]

\* [^a-z] under the i flag: any character but an ASCII letter
NotLetter(c) == ~(Canon(c) >= 65 /\ Canon(c) <= 90)

GapChar(gap, c) == IF gap = "\\s*" THEN IsWhiteSpace(c) ELSE c # 62

\* the pattern matches with its literal beginning at position i
MatchAt(pattern, s, i) ==
    /\ pattern.lead => (i >= 2 /\ NotLetter(CharAt(s, i - 1)))
    /\ LitAt(s, i, pattern.lit, pattern.ci)
    /\ pattern.gap # "" =>
         \E g \in 0..(SearchEnd(s) - i) :
            /\ \A k \in 0..(g - 1) :
                 GapChar(pattern.gap, CharAt(s, i + Len(pattern.lit) + k))
            /\ LitAt(s, i + Len(pattern.lit) + g, pattern.tail, pattern.ci)

\* pattern.test(s): a match anywhere in s
Test(pattern, s) == \E i \in 1..SearchEnd(s) : MatchAt(pattern, s, i)

(***************************************************************************)
(* Base64: fileBuffer.toString("base64") and Buffer.from(s, "base64").     *)
(* A base64 string is [head, zeros, tail]: the characters head, then       *)
(* zeros times "AAAA" (three NUL bytes each), then the characters tail.    *)
(***************************************************************************)
\* ABCDEFGHIJKLMNOPQRSTUVWXYZabcdefghijklmnopqrstuvwxyz0123456789+/
Base64Alphabet ==
    << 65, 66, 67, 68, 69, 70, 71, 72, 73, 74, 75, 76, 77, 78, 79, 80, 81, 82, 83,
       84, 85, 86, 87, 88, 89, 90, 97, 98, 99, 100, 101, 102, 103, 104, 105, 106,
       107, 108, 109, 110, 111, 112, 113, 114, 115, 116, 117, 118, 119, 120, 121,
       122, 48, 49, 50, 51, 52, 53, 54, 55, 56, 57, 43, 47 >>

Base64Char(sextet) == Base64Alphabet[sextet + 1]
Base64Sextet(c) == CHOOSE v \in 0..63 : Base64Alphabet[v + 1] = c

RECURSIVE Base64EncodeSeq(_)
Base64EncodeSeq(bytes) ==
    IF bytes = <<>> THEN <<>>
    ELSE IF Len(bytes) = 1
    THEN << Base64Char(bytes[1] \div 4), Base64Char((bytes[1] % 4) * 16), 61, 61 >>
    ELSE IF Len(bytes) = 2
    THEN << Base64Char(bytes[1] \div 4),
            Base64Char((bytes[1] % 4) * 16 + bytes[2] \div 16),
            Base64Char((bytes[2] % 16) * 4), 61 >>
    ELSE << Base64Char(bytes[1] \div 4),
            Base64Char((bytes[1] % 4) * 16 + bytes[2] \div 16),
            Base64Char((bytes[2] % 16) * 4 + bytes[3] \div 64),
            Base64Char(bytes[3] % 64) >>
         \o Base64EncodeSeq(SubSeq(bytes, 4, Len(bytes)))

\* A slip: a last group of fewer than four characters before "=" is dropped.
RECURSIVE Base64DecodeSeq_WholeGroupsOnly(_)
Base64DecodeSeq_WholeGroupsOnly(cs) ==
    IF Len(cs) < 4 \/ \E i \in 1..4 : cs[i] = 61 THEN <<>>
    ELSE LET a == Base64Sextet(cs[1])
             b == Base64Sextet(cs[2])
             c == Base64Sextet(cs[3])
         IN  << a * 4 + b \div 16, (b % 16) * 16 + c \div 4,
                (c % 4) * 64 + Base64Sextet(cs[4]) >>
             \o Base64DecodeSeq_WholeGroupsOnly(SubSeq(cs, 5, Len(cs)))

\* decoding stops at the first "="
RECURSIVE Base64DecodeSeq(_)
Base64DecodeSeq(cs) ==
    IF Len(cs) < 2 \/ cs[1] = 61 \/ cs[2] = 61 THEN <<>>
    ELSE LET a == Base64Sextet(cs[1])
             b == Base64Sextet(cs[2])
         IN  IF Len(cs) < 3 \/ cs[3] = 61 THEN << a * 4 + b \div 16 >>
             ELSE LET c == Base64Sextet(cs[3])
                  IN  IF Len(cs) < 4 \/ cs[4] = 61
                      THEN << a * 4 + b \div 16, (b % 16) * 16 + c \div 4 >>
                      ELSE << a * 4 + b \div 16, (b % 16) * 16 + c \div 4,
                              (c % 4) * 64 + Base64Sextet(cs[4]) >>
                           \o Base64DecodeSeq(SubSeq(cs, 5, Len(cs)))

Nuls(n) == [k \in 1..n |-> 0]

\* fileBuffer.toString("base64")
BufferToBase64(buffer) ==
    LET n == Len(buffer.bytes)
        m == Min(buffer.pad, (3 - (n % 3)) % 3)   \* NULs completing the last group
        rest == buffer.pad - m
    IN  [head |-> Base64EncodeSeq(buffer.bytes \o Nuls(m)),
         zeros |-> rest \div 3,
         tail |-> Base64EncodeSeq(Nuls(rest % 3))]

\* trailing NUL bytes are kept as the run
RECURSIVE NormBuf(_, _)
NormBuf(bytes, pad) ==
    IF bytes # <<>> /\ bytes[Len(bytes)] = 0
    THEN NormBuf(SubSeq(bytes, 1, Len(bytes) - 1), pad + 1)
    ELSE [bytes |-> bytes, pad |-> pad]

\* Buffer.from(base64Content, "base64")
BufferFromBase64(b64) ==
    IF b64.zeros = 0 THEN NormBuf(Base64DecodeSeq(b64.head \o b64.tail), 0)
    ELSE NormBuf(Base64DecodeSeq(b64.head),
                 3 * b64.zeros + Len(Base64DecodeSeq(b64.tail)))

(***************************************************************************)
(* Paths: sequences of ASCII characters.                                   *)
(***************************************************************************)
\* index of the last occurrence of c in cs, 0 if there is none
LastIndexOf(cs, c) ==
    IF \E i \in 1..Len(cs) : cs[i] = c
    THEN CHOOSE i \in 1..Len(cs) : cs[i] = c /\ \A j \in (i + 1)..Len(cs) : cs[j] # c
    ELSE 0

\* path.basename(p), for a path that does not end in "/"
BaseName(p) == SubSeq(p, LastIndexOf(p, 47) + 1, Len(p))

\* path.extname(p): from the last "." of the base name on; empty when there
\* is no ".", when the only "." begins the base name, and for ".."
ExtName(p) ==
    LET base == BaseName(p)
        dot == LastIndexOf(base, 46)
    IN  IF dot <= 1 \/ base = <<46, 46>> THEN <<>>
        ELSE SubSeq(base, dot, Len(base))

\* String.prototype.toLowerCase() on ASCII
ToLowerCase(cs) == [i \in 1..Len(cs) |-> IF cs[i] >= 65 /\ cs[i] <= 90 THEN cs[i] + 32 ELSE cs[i]]

ExtJpg == <<46, 106, 112, 103>>           \* .jpg
ExtJpeg == <<46, 106, 112, 101, 103>>     \* .jpeg
ExtPng == <<46, 112, 110, 103>>           \* .png
ExtGif == <<46, 103, 105, 102>>           \* .gif
ExtPdf == <<46, 112, 100, 102>>           \* .pdf
ExtSvg == <<46, 115, 118, 103>>           \* .svg

(***************************************************************************)
(* The file system, as the two calls of fs/promises see it.  A file is     *)
(* [kind, buffer]; for a directory buffer.pad is the size stat reports.    *)
(***************************************************************************)
\* fs.stat(filePath): rejects when nothing is at the path
FsStat(f) ==
    IF f.kind = "missing"
    THEN [ok |-> FALSE, error |-> "ENOENT: no such file or directory, stat", size |-> 0]
    ELSE [ok |-> TRUE, error |-> "", size |-> BufLen(f.buffer)]

\* fs.readFile(filePath)
FsReadFile(f) ==
    IF f.kind = "missing"
    THEN [ok |-> FALSE, error |-> "ENOENT: no such file or directory, open",
          buffer |-> f.buffer]
    ELSE IF f.kind = "directory"
    THEN [ok |-> FALSE, error |-> "EISDIR: illegal operation on a directory, read",
          buffer |-> f.buffer]
    ELSE IF f.kind = "unreadable"
    THEN [ok |-> FALSE, error |-> "EACCES: permission denied, open",
          buffer |-> f.buffer]
    ELSE [ok |-> TRUE, error |-> "", buffer |-> f.buffer]

(***************************************************************************)
(* How a function body ends: it returns {status, message} or it throws.    *)
(* A message is the sequence of the pieces its template joins.  The        *)
(* options argument is [kind, maxSizeInBytes, pdfWhitelist, checkContent]  *)
(* with kind "undefined" (argument left out), "null" or "object";          *)
(* checkContent is a property a caller may set and the source never reads. *)
(***************************************************************************)
Return(status, message) == [kind |-> "return", status |-> status, message |-> message]
Throw(errorMessage) == [kind |-> "throw", status |-> FALSE, message |-> <<errorMessage>>]

\* A slip: no catch block, the fault leaves the function.
TryCatch_Rethrow(outcome, prefix) == outcome

\* try { ... } catch (error) { return { status: false, message: prefix + error.message } }
TryCatch(outcome, prefix) ==
    IF outcome.kind = "throw" THEN Return(FALSE, <<prefix>> \o outcome.message)
    ELSE outcome

\* the default parameter: options = {}
EmptyOptions ==
    [kind |-> "object", maxSizeInBytes |-> Undefined, pdfWhitelist |-> Undefined,
     checkContent |-> Undefined]
DefaultOptions(options) == IF options.kind = "undefined" THEN EmptyOptions ELSE options

NullPropertyError(property) ==
    IF property = "maxSizeInBytes"
    THEN "Cannot read properties of null (reading 'maxSizeInBytes')"
    ELSE "Cannot read properties of null (reading 'pdfWhitelist')"

\* for (const pattern of patterns) if (hit) return ...: of the indexes of the
\* list's elements that hit, the first; 0 if none does
FirstHit(hits) ==
    IF hits = {} THEN 0
    ELSE CHOOSE k \in hits : \A j \in hits : k <= j

\* A slip: the text is tested as it is, not trimmed.
SvgCase_NoTrim(fileBuffer, fileContent) ==
    LET hasSVGTag == Test(SvgTagPattern, fileContent)
        hasValidXML == \/ StartsWith(fileContent, <<60, 63, 120, 109, 108>>)
                       \/ StartsWith(fileContent, <<60, 115, 118, 103>>)
    IN  checkFileSignature(fileBuffer, FILE_SIGNATURES.SVG)
        \/ (hasSVGTag /\ hasValidXML)

\* case ".svg"
SvgCase(fileBuffer, fileContent) ==
    LET hasSVGTag == Test(SvgTagPattern, fileContent)
        hasValidXML == \/ StartsWith(Trim(fileContent), <<60, 63, 120, 109, 108>>)
                       \/ StartsWith(Trim(fileContent), <<60, 115, 118, 103>>)
    IN  checkFileSignature(fileBuffer, FILE_SIGNATURES.SVG)
        \/ (hasSVGTag /\ hasValidXML)

\* A slip: the trailer marker is not asked for.
PdfCase_NoEOF(fileBuffer, fileContent) ==
    LET hasPDFSignature == Includes(fileContent, <<37, 80, 68, 70, 45>>)
    IN  checkFileSignature(fileBuffer, FILE_SIGNATURES.PDF) /\ hasPDFSignature

\* case ".pdf"
PdfCase(fileBuffer, fileContent) ==
    LET hasPDFSignature == Includes(fileContent, <<37, 80, 68, 70, 45>>)
        hasEOFMarker == Includes(fileContent, <<37, 37, 69, 79, 70>>)
    IN  checkFileSignature(fileBuffer, FILE_SIGNATURES.PDF)
        /\ hasPDFSignature /\ hasEOFMarker

\* A slip: ".jpeg" is checked against the JFIF signature only.
IsValidSignature_JpegJfifOnly(fileExtension, fileBuffer, fileContent) ==
    IF fileExtension = ExtJpg
    THEN checkFileSignature(fileBuffer, FILE_SIGNATURES.JPEG)
    ELSE IF fileExtension = ExtJpeg
    THEN checkFileSignature(fileBuffer, <<FILE_SIGNATURES.JPEG[1]>>)
    ELSE IF fileExtension = ExtPng
    THEN checkFileSignature(fileBuffer, FILE_SIGNATURES.PNG)
    ELSE IF fileExtension = ExtGif
    THEN checkFileSignature(fileBuffer, FILE_SIGNATURES.GIF)
    ELSE IF fileExtension = ExtSvg
    THEN SvgCase(fileBuffer, fileContent)
    ELSE PdfCase(fileBuffer, fileContent)

\* the switch on fileExtension, for the six extensions it has a case for
IsValidSignature(fileExtension, fileBuffer, fileContent) ==
    IF fileExtension \in {ExtJpg, ExtJpeg}
    THEN checkFileSignature(fileBuffer, FILE_SIGNATURES.JPEG)
    ELSE IF fileExtension = ExtPng
    THEN checkFileSignature(fileBuffer, FILE_SIGNATURES.PNG)
    ELSE IF fileExtension = ExtGif
    THEN checkFileSignature(fileBuffer, FILE_SIGNATURES.GIF)
    ELSE IF fileExtension = ExtSvg
    THEN SvgCase(fileBuffer, fileContent)
    ELSE PdfCase(fileBuffer, fileContent)

\* A slip: the identifiers are compared without regard to letter case (of
\* the entries the calls pass, "metadata" is the one that differs from a
\* rule's name in case alone).
ArrayIncludes_IgnoreCase(array, name) ==
    \E i \in 1..Len(array) :
        \/ array[i] = name
        \/ array[i] = "metadata" /\ name = "Metadata"

\* pdfWhitelist.includes(name)
ArrayIncludes(array, name) == \E i \in 1..Len(array) : array[i] = name

\* A slip: the whitelist is read and never consulted.
PdfChecks_IgnoreWhitelist(options, fileContent) ==
    IF options.kind = "null" THEN Throw(NullPropertyError("pdfWhitelist"))
    ELSE LET Hit(k) == Test(pdfSuspiciousPatterns[k].pattern, fileContent)
             hit == FirstHit({k \in 1..Len(pdfSuspiciousPatterns) : Hit(k)})
         IN  IF hit # 0
             THEN Return(FALSE, <<"Suspicious PDF pattern detected: ",
                                  pdfSuspiciousPatterns[hit].pattern.src>>)
             ELSE Return(TRUE, <<"Content validation passed">>)

\* A slip: the loop runs to its end and the message names the last rule that
\* matches, skipped or not.
PdfChecks_NamesLastMatch(options, fileContent) ==
    IF options.kind = "null" THEN Throw(NullPropertyError("pdfWhitelist"))
    ELSE LET pdfWhitelist == IF options.pdfWhitelist = Undefined THEN <<>>
                             ELSE options.pdfWhitelist[1]
             Hit(k) == /\ ~ArrayIncludes(pdfWhitelist, pdfSuspiciousPatterns[k].name)
                       /\ Test(pdfSuspiciousPatterns[k].pattern, fileContent)
             hit == FirstHit({k \in 1..Len(pdfSuspiciousPatterns) : Hit(k)})
             matching == {k \in 1..Len(pdfSuspiciousPatterns) :
                            Test(pdfSuspiciousPatterns[k].pattern, fileContent)}
             last == CHOOSE k \in matching : \A j \in matching : j <= k
         IN  IF hit # 0
             THEN Return(FALSE, <<"Suspicious PDF pattern detected: ",
                                  pdfSuspiciousPatterns[last].pattern.src>>)
             ELSE Return(TRUE, <<"Content validation passed">>)

\* A slip: only the first entry of the whitelist is looked at.
PdfChecks_FirstEntryOnly(options, fileContent) ==
    IF options.kind = "null" THEN Throw(NullPropertyError("pdfWhitelist"))
    ELSE LET pdfWhitelist == IF options.pdfWhitelist = Undefined THEN <<>>
                             ELSE options.pdfWhitelist[1]
             Hit(k) == /\ ~(/\ Len(pdfWhitelist) > 0
                            /\ pdfWhitelist[1] = pdfSuspiciousPatterns[k].name)
                       /\ Test(pdfSuspiciousPatterns[k].pattern, fileContent)
             hit == FirstHit({k \in 1..Len(pdfSuspiciousPatterns) : Hit(k)})
         IN  IF hit # 0
             THEN Return(FALSE, <<"Suspicious PDF pattern detected: ",
                                  pdfSuspiciousPatterns[hit].pattern.src>>)
             ELSE Return(TRUE, <<"Content validation passed">>)

\* the PDF-specific checks, from the read of options.pdfWhitelist on
PdfChecks(options, fileContent) ==
    IF options.kind = "null" THEN Throw(NullPropertyError("pdfWhitelist"))
    ELSE LET pdfWhitelist == IF options.pdfWhitelist = Undefined THEN <<>>
                             ELSE options.pdfWhitelist[1]
             Hit(k) == /\ ~ArrayIncludes(pdfWhitelist, pdfSuspiciousPatterns[k].name)
                       /\ Test(pdfSuspiciousPatterns[k].pattern, fileContent)
             hit == FirstHit({k \in 1..Len(pdfSuspiciousPatterns) : Hit(k)})
         IN  IF hit # 0
             THEN Return(FALSE, <<"Suspicious PDF pattern detected: ",
                                  pdfSuspiciousPatterns[hit].pattern.src>>)
             ELSE Return(TRUE, <<"Content validation passed">>)

SvgChecks(fileContent) ==
    LET Hit(k) == Test(svgSuspiciousPatterns[k], fileContent)
        hit == FirstHit({k \in 1..Len(svgSuspiciousPatterns) : Hit(k)})
    IN  IF hit # 0
        THEN Return(FALSE, <<"Suspicious SVG pattern detected: ",
                             svgSuspiciousPatterns[hit].src>>)
        ELSE Return(TRUE, <<"Content validation passed">>)

\* A slip: the default case raises instead of returning a verdict.
validateFileContentBody_UnsupportedThrows(filePath, options, read) ==
    IF ~read.ok THEN Throw(read.error)
    ELSE
    LET fileBuffer == read.buffer
        fileExtension == ToLowerCase(ExtName(filePath))
        fileContent == BufferToString(fileBuffer)
        base64Content == BufferToBase64(fileBuffer)
        decodedContent == BufferToString(BufferFromBase64(base64Content))
        GenericHit(k) == \/ Test(suspiciousPatterns[k], decodedContent)
                         \/ Test(suspiciousPatterns[k], fileContent)
        generic == FirstHit({k \in 1..Len(suspiciousPatterns) : GenericHit(k)})
    IN  IF fileExtension \notin {ExtJpg, ExtJpeg, ExtPng, ExtGif, ExtSvg, ExtPdf}
        THEN Throw("UnsupportedType")
        ELSE IF ~IsValidSignature(fileExtension, fileBuffer, fileContent)
        THEN Return(FALSE, <<"Invalid file signature detected">>)
        ELSE IF generic # 0
        THEN Return(FALSE, <<"Suspicious pattern detected: ",
                             suspiciousPatterns[generic].src>>)
        ELSE IF fileExtension = ExtSvg THEN SvgChecks(fileContent)
        ELSE IF fileExtension = ExtPdf THEN PdfChecks(options, fileContent)
        ELSE Return(TRUE, <<"Content validation passed">>)

\* A slip: a whitelist that is not empty switches the generic scan off too.
validateFileContentBody_WhitelistExemptsGeneric(filePath, options, read) ==
    IF ~read.ok THEN Throw(read.error)
    ELSE
    LET fileBuffer == read.buffer
        fileExtension == ToLowerCase(ExtName(filePath))
        fileContent == BufferToString(fileBuffer)
        base64Content == BufferToBase64(fileBuffer)
        decodedContent == BufferToString(BufferFromBase64(base64Content))
        exempt == /\ options.kind = "object"
                  /\ options.pdfWhitelist # Undefined
                  /\ options.pdfWhitelist[1] # <<>>
        GenericHit(k) == /\ ~exempt
                         /\ \/ Test(suspiciousPatterns[k], decodedContent)
                            \/ Test(suspiciousPatterns[k], fileContent)
        generic == FirstHit({k \in 1..Len(suspiciousPatterns) : GenericHit(k)})
    IN  IF fileExtension \notin {ExtJpg, ExtJpeg, ExtPng, ExtGif, ExtSvg, ExtPdf}
        THEN Return(FALSE, <<"Unsupported file type">>)
        ELSE IF ~IsValidSignature(fileExtension, fileBuffer, fileContent)
        THEN Return(FALSE, <<"Invalid file signature detected">>)
        ELSE IF generic # 0
        THEN Return(FALSE, <<"Suspicious pattern detected: ",
                             suspiciousPatterns[generic].src>>)
        ELSE IF fileExtension = ExtSvg THEN SvgChecks(fileContent)
        ELSE IF fileExtension = ExtPdf THEN PdfChecks(options, fileContent)
        ELSE Return(TRUE, <<"Content validation passed">>)

\* A slip: the PDF rules are applied to every type but SVG.
validateFileContentBody_PdfRulesForAll(filePath, options, read) ==
    IF ~read.ok THEN Throw(read.error)
    ELSE
    LET fileBuffer == read.buffer
        fileExtension == ToLowerCase(ExtName(filePath))
        fileContent == BufferToString(fileBuffer)
        base64Content == BufferToBase64(fileBuffer)
        decodedContent == BufferToString(BufferFromBase64(base64Content))
        GenericHit(k) == \/ Test(suspiciousPatterns[k], decodedContent)
                         \/ Test(suspiciousPatterns[k], fileContent)
        generic == FirstHit({k \in 1..Len(suspiciousPatterns) : GenericHit(k)})
    IN  IF fileExtension \notin {ExtJpg, ExtJpeg, ExtPng, ExtGif, ExtSvg, ExtPdf}
        THEN Return(FALSE, <<"Unsupported file type">>)
        ELSE IF ~IsValidSignature(fileExtension, fileBuffer, fileContent)
        THEN Return(FALSE, <<"Invalid file signature detected">>)
        ELSE IF generic # 0
        THEN Return(FALSE, <<"Suspicious pattern detected: ",
                             suspiciousPatterns[generic].src>>)
        ELSE IF fileExtension = ExtSvg THEN SvgChecks(fileContent)
        ELSE PdfChecks(options, fileContent)

\* A slip: the dispatch goes by the extension as it is written in the path.
validateFileContentBody_NoLowerCase(filePath, options, read) ==
    IF ~read.ok THEN Throw(read.error)
    ELSE
    LET fileBuffer == read.buffer
        fileExtension == ExtName(filePath)
        fileContent == BufferToString(fileBuffer)
        base64Content == BufferToBase64(fileBuffer)
        decodedContent == BufferToString(BufferFromBase64(base64Content))
        GenericHit(k) == \/ Test(suspiciousPatterns[k], decodedContent)
                         \/ Test(suspiciousPatterns[k], fileContent)
        generic == FirstHit({k \in 1..Len(suspiciousPatterns) : GenericHit(k)})
    IN  IF fileExtension \notin {ExtJpg, ExtJpeg, ExtPng, ExtGif, ExtSvg, ExtPdf}
        THEN Return(FALSE, <<"Unsupported file type">>)
        ELSE IF ~IsValidSignature(fileExtension, fileBuffer, fileContent)
        THEN Return(FALSE, <<"Invalid file signature detected">>)
        ELSE IF generic # 0
        THEN Return(FALSE, <<"Suspicious pattern detected: ",
                             suspiciousPatterns[generic].src>>)
        ELSE IF fileExtension = ExtSvg THEN SvgChecks(fileContent)
        ELSE IF fileExtension = ExtPdf THEN PdfChecks(options, fileContent)
        ELSE Return(TRUE, <<"Content validation passed">>)

\* the body of validateFileContent's try block, given what readFile settled to
validateFileContentBody(filePath, options, read) ==
    IF ~read.ok THEN Throw(read.error)
    ELSE
    LET fileBuffer == read.buffer
        fileExtension == ToLowerCase(ExtName(filePath))
        fileContent == BufferToString(fileBuffer)
        base64Content == BufferToBase64(fileBuffer)
        decodedContent == BufferToString(BufferFromBase64(base64Content))
        GenericHit(k) == \/ Test(suspiciousPatterns[k], decodedContent)
                         \/ Test(suspiciousPatterns[k], fileContent)
        generic == FirstHit({k \in 1..Len(suspiciousPatterns) : GenericHit(k)})
    IN  IF fileExtension \notin {ExtJpg, ExtJpeg, ExtPng, ExtGif, ExtSvg, ExtPdf}
        THEN Return(FALSE, <<"Unsupported file type">>)
        ELSE IF ~IsValidSignature(fileExtension, fileBuffer, fileContent)
        THEN Return(FALSE, <<"Invalid file signature detected">>)
        ELSE IF generic # 0
        THEN Return(FALSE, <<"Suspicious pattern detected: ",
                             suspiciousPatterns[generic].src>>)
        ELSE IF fileExtension = ExtSvg THEN SvgChecks(fileContent)
        ELSE IF fileExtension = ExtPdf THEN PdfChecks(options, fileContent)
        ELSE Return(TRUE, <<"Content validation passed">>)

\* A slip: the verdict of the call before is kept and handed out again.
validateFileContent_Cached(filePath, options, read) ==
    IF history # <<>> THEN history[Len(history)].result
    ELSE TryCatch(validateFileContentBody(filePath, DefaultOptions(options), read),
                  "Content validation failed: ")

validateFileContent(filePath, options, read) ==
    TryCatch(validateFileContentBody(filePath, DefaultOptions(options), read),
             "Content validation failed: ")

DEFAULT_MAX_SIZE == 5 * 1024 * 1024

\* Math.round(maxSizeInBytes / (1024 * 1024)), maxSizeInBytes a natural number
SizeMB(maxSizeInBytes) == (2 * maxSizeInBytes + 1048576) \div 2097152

allowedExtensions == <<ExtJpg, ExtJpeg, ExtPng, ExtGif, ExtPdf, ExtSvg>>

Await == [kind |-> "await", status |-> FALSE, message |-> <<>>]

\* A slip: the extension is checked before the size.
validateFileBody_ExtensionFirst(filePath, options, stat) ==
    IF options.kind = "null" THEN Throw(NullPropertyError("maxSizeInBytes"))
    ELSE
    LET maxSizeInBytes == IF options.maxSizeInBytes = Undefined THEN DEFAULT_MAX_SIZE
                          ELSE options.maxSizeInBytes[1]
        fileExtension == ToLowerCase(ExtName(filePath))
        sizeVerdict == Return(FALSE, <<"File size exceeds limit of ",
                                       ToString(SizeMB(maxSizeInBytes)), "MB">>)
        extensionVerdict == Return(FALSE, <<"Invalid file extension">>)
    IN  IF ~stat.ok THEN Throw(stat.error)
        ELSE IF ~ArrayIncludes(allowedExtensions, fileExtension) THEN extensionVerdict
        ELSE IF stat.size > maxSizeInBytes THEN sizeVerdict
        ELSE Await
\* A slip: a file of exactly the limit is refused.
validateFileBody_SizeAtLeast(filePath, options, stat) ==
    IF options.kind = "null" THEN Throw(NullPropertyError("maxSizeInBytes"))
    ELSE
    LET maxSizeInBytes == IF options.maxSizeInBytes = Undefined THEN DEFAULT_MAX_SIZE
                          ELSE options.maxSizeInBytes[1]
        fileExtension == ToLowerCase(ExtName(filePath))
        sizeVerdict == Return(FALSE, <<"File size exceeds limit of ",
                                       ToString(SizeMB(maxSizeInBytes)), "MB">>)
        extensionVerdict == Return(FALSE, <<"Invalid file extension">>)
    IN  IF ~stat.ok THEN Throw(stat.error)
        ELSE IF stat.size >= maxSizeInBytes THEN sizeVerdict
        ELSE IF ~ArrayIncludes(allowedExtensions, fileExtension) THEN extensionVerdict
        ELSE Await
\* A slip: the allow-list is left out and the dispatch is trusted to refuse.
validateFileBody_NoExtensionCheck(filePath, options, stat) ==
    IF options.kind = "null" THEN Throw(NullPropertyError("maxSizeInBytes"))
    ELSE
    LET maxSizeInBytes == IF options.maxSizeInBytes = Undefined THEN DEFAULT_MAX_SIZE
                          ELSE options.maxSizeInBytes[1]
        fileExtension == ToLowerCase(ExtName(filePath))
        sizeVerdict == Return(FALSE, <<"File size exceeds limit of ",
                                       ToString(SizeMB(maxSizeInBytes)), "MB">>)
        extensionVerdict == Return(FALSE, <<"Invalid file extension">>)
    IN  IF ~stat.ok THEN Throw(stat.error)
        ELSE IF stat.size > maxSizeInBytes THEN sizeVerdict
        ELSE Await
\* validateFile's try block from its start to the call of validateFileContent,
\* given what stat settled to: the verdict it ends with, or Await when it
\* goes on to validateFileContent
validateFileBody(filePath, options, stat) ==
    IF options.kind = "null" THEN Throw(NullPropertyError("maxSizeInBytes"))
    ELSE
    LET maxSizeInBytes == IF options.maxSizeInBytes = Undefined THEN DEFAULT_MAX_SIZE
                          ELSE options.maxSizeInBytes[1]
        fileExtension == ToLowerCase(ExtName(filePath))
    IN  IF ~stat.ok THEN Throw(stat.error)
        ELSE IF stat.size > maxSizeInBytes
        THEN Return(FALSE, <<"File size exceeds limit of ",
                             ToString(SizeMB(maxSizeInBytes)), "MB">>)
        ELSE IF ~ArrayIncludes(allowedExtensions, fileExtension)
        THEN Return(FALSE, <<"Invalid file extension">>)
        ELSE Await

validateFileStart(filePath, options, stat) ==
    TryCatch(validateFileBody(filePath, DefaultOptions(options), stat),
             "File validation failed: ")

\* return contentValidation, inside validateFile's try block
validateFileEnd(contentValidation) ==
    TryCatch(contentValidation, "File validation failed: ")

(***************************************************************************)
(* The inputs.  A small file is one of Headers followed by at most MaxBody *)
(* of Tokens, in the order of Tokens; a large file is a header followed by *)
(* NUL bytes up to one of LargeSizes.                                      *)
(***************************************************************************)
MaxBody == 2

Headers ==
    << <<>>,                                             \* nothing
       <<255, 216, 255, 224>>,                           \* FF D8 FF E0
       <<255, 216, 255, 225>>,                           \* FF D8 FF E1
       <<137, 80, 78, 71>>,                              \* 89 PNG
       <<71, 73, 70, 56>>,                               \* GIF8
       <<37, 80, 68, 70, 45, 49, 46, 52, 10, 37, 37, 69, 79, 70, 10>>, \* %PDF-1.4 \n %%EOF \n
       <<37, 80, 68, 70, 45, 49, 46, 52, 10>>,           \* %PDF-1.4 \n
       <<37, 80, 68, 70, 10, 37, 37, 69, 79, 70, 10>>,   \* %PDF \n %%EOF \n
       <<10, 37, 80, 68, 70, 45, 49, 46, 52, 10, 37, 37, 69, 79, 70, 10>>, \* \n %PDF-1.4 \n %%EOF \n
       <<60, 63, 120, 109, 108, 63, 62>>,                \* <?xml?>
       <<60, 115, 118, 103, 62>>,                        \* <svg>
       <<32, 10, 60, 115, 118, 103, 62>>,                \* space \n <svg>
       <<239, 187, 191, 60, 63, 120, 109, 108, 63, 62>>, \* BOM <?xml?>
       <<65, 60, 115, 118, 103, 62>> >>                  \* A<svg>

Tokens ==
    << <<60, 115, 118, 103, 32, 97, 62>>,                \* <svg a>
       <<60, 83, 99, 114, 105, 112, 116, 62>>,           \* <Script>
       <<47, 77, 101, 116, 97, 100, 97, 116, 97>>,       \* /Metadata
       <<47, 74, 97, 118, 97, 83, 99, 114, 105, 112, 116>>, \* /JavaScript
       <<47, 79, 112, 101, 110, 65, 99, 116, 105, 111, 110>>, \* /OpenAction
       <<47, 109, 101, 116, 97, 100, 97, 116, 97>>,      \* /metadata
       <<120, 108, 105, 110, 107, 58, 104, 114, 101, 102>>, \* xlink:href
       <<111, 110, 76, 111, 97, 100>> >>                 \* onLoad

RECURSIVE Concat(_, _, _)
\* Tokens[k], for the k in chosen from k = from on, one after the other
Concat(chosen, from, tokens) ==
    IF from > Len(tokens) THEN <<>>
    ELSE (IF from \in chosen THEN tokens[from] ELSE <<>>)
         \o Concat(chosen, from + 1, tokens)

Bodies == { Concat(chosen, 1, Tokens) :
              chosen \in { c \in SUBSET (1..Len(Tokens)) : Cardinality(c) <= MaxBody } }

Regular(bytes, pad) == [kind |-> "regular", buffer |-> [bytes |-> bytes, pad |-> pad]]

SmallFiles == { Regular(Headers[h] \o body, 0) : h \in 1..Len(Headers), body \in Bodies }

\* the default limit and the README's 15.5 MB limit, the byte after each, 6 MiB
LargeSizes ==
    { DEFAULT_MAX_SIZE, DEFAULT_MAX_SIZE + 1, 6 * 1024 * 1024,
      31 * 512 * 1024, 31 * 512 * 1024 + 1 }

LargeFiles == { Regular(Headers[h], size - Len(Headers[h])) :
                  h \in {2, 6}, size \in LargeSizes }

OtherFiles ==
    { [kind |-> "missing", buffer |-> [bytes |-> <<>>, pad |-> 0]],
      [kind |-> "directory", buffer |-> [bytes |-> <<>>, pad |-> 4096]],
      [kind |-> "unreadable", buffer |-> [bytes |-> Headers[2], pad |-> 0]] }

Files == SmallFiles \cup LargeFiles \cup OtherFiles

Paths ==
    { <<97>> \o ExtJpg, <<97>> \o ExtJpeg, <<97>> \o ExtPng, <<97>> \o ExtGif,
      <<97>> \o ExtPdf, <<97>> \o ExtSvg,
      <<97, 46, 80, 68, 70>>,                 \* a.PDF
      <<97, 46, 116, 120, 116>> }             \* a.txt

Limits == { 4, 31 * 512 * 1024 }

Whitelists ==
    { <<"Metadata">>, <<"metadata">>, <<"Unknown">>, <<"Metadata", "JavaScript">>,
      <<"OpenAction", "JavaScript", "JS", "Launch", "EmbeddedFile", "XFA",
        "Annots", "Metadata">> }

OptionsOf(kind, maxSizeInBytes, pdfWhitelist) ==
    [kind |-> kind, maxSizeInBytes |-> maxSizeInBytes, pdfWhitelist |-> pdfWhitelist,
     checkContent |-> Undefined]

\* { checkContent: true } and { checkContent: false }
CheckContentOptions ==
    { [OptionsOf("object", Undefined, Undefined) EXCEPT !.checkContent = Some(b)] :
        b \in BOOLEAN }

\* the calls made: every path with no options and with null; a limit with
\* paths of three extensions; a whitelist with paths of four; checkContent
\* with paths of two
Calls ==
    { [path |-> filePath, options |-> OptionsOf(kind, Undefined, Undefined)] :
        filePath \in Paths, kind \in {"undefined", "null"} }
    \cup { [path |-> <<97>> \o ext, options |-> OptionsOf("object", Some(m), Undefined)] :
             ext \in {ExtJpg, ExtPdf, <<46, 116, 120, 116>>}, m \in Limits }
    \cup { [path |-> <<97>> \o ext, options |-> OptionsOf("object", Undefined, Some(w))] :
             ext \in {ExtPdf, <<46, 80, 68, 70>>, ExtJpg, ExtSvg}, w \in Whitelists }
    \cup { [path |-> <<97>> \o ext, options |-> o] :
             ext \in {ExtJpg, ExtPdf}, o \in CheckContentOptions }

(***************************************************************************)
(* The state machine: one caller, one call in flight.  Each await of the   *)
(* source ends a step.                                                     *)
(***************************************************************************)
NoCall == [api |-> "none", path |-> <<>>,
           options |-> [kind |-> "undefined", maxSizeInBytes |-> Undefined,
                        pdfWhitelist |-> Undefined, checkContent |-> Undefined]]
NoResult == [kind |-> "none", status |-> FALSE, message |-> <<>>]
NothingSeen == [stat |-> Undefined, read |-> Undefined]

Init ==
    /\ file \in Files
    /\ pc = "idle"
    /\ call = NoCall
    /\ result = NoResult
    /\ seen = NothingSeen
    /\ history = <<>>

\* validateFile(filePath, options) is called; it runs up to `await fs.stat`
CallValidateFile(filePath, options) ==
    /\ pc = "idle"
    /\ pc' = "stat"
    /\ call' = [api |-> "validateFile", path |-> filePath, options |-> options]
    /\ UNCHANGED <<file, result, seen, history>>

\* validateFileContent(filePath, options) is called by the user; it runs up
\* to `await fs.readFile`
CallValidateFileContent(filePath, options) ==
    /\ pc = "idle"
    /\ pc' = "read"
    /\ call' = [api |-> "validateFileContent", path |-> filePath, options |-> options]
    /\ UNCHANGED <<file, result, seen, history>>

\* stat settles; validateFile runs on to its verdict or to `await fs.readFile`
\* inside validateFileContent
StatSettles ==
    /\ pc = "stat"
    /\ LET stat == FsStat(file)
           outcome == validateFileStart(call.path, call.options, stat)
       IN  /\ seen' = [seen EXCEPT !.stat = IF call.options.kind = "null"
                                            THEN Undefined ELSE Some(stat)]
           /\ IF outcome.kind = "await"
              THEN pc' = "read" /\ UNCHANGED result
              ELSE pc' = "done" /\ result' = outcome
    /\ UNCHANGED <<file, call, history>>

\* readFile settles; validateFileContent runs to its end, and validateFile
\* returns what it returned
ReadSettles ==
    /\ pc = "read"
    /\ LET read == FsReadFile(file)
           contentValidation == validateFileContent(call.path, call.options, read)
       IN  /\ seen' = [seen EXCEPT !.read = Some(read)]
           /\ result' = IF call.api = "validateFile"
                        THEN validateFileEnd(contentValidation)
                        ELSE contentValidation
    /\ pc' = "done"
    /\ UNCHANGED <<file, call, history>>

\* the caller takes the result
Finish ==
    /\ pc = "done"
    /\ pc' = "idle"
    /\ call' = NoCall
    /\ result' = NoResult
    /\ seen' = NothingSeen
    /\ UNCHANGED <<file, history>>

Next ==
    \/ \E c \in Calls : CallValidateFile(c.path, c.options)
    \/ \E c \in Calls : CallValidateFileContent(c.path, c.options)
    \/ StatSettles
    \/ ReadSettles
    \/ Finish

Spec == Init /\ [][Next]_vars

(***************************************************************************)
(* What the claims speak of, read off the state of a finished call.        *)
(***************************************************************************)
Done == pc = "done"
ByValidateFile == call.api = "validateFile"

\* the call passes an options object or none: the declared parameter type
OptionsGiven == call.options.kind # "null"

\* the extension the dispatch goes by
Extension == ToLowerCase(ExtName(call.path))
SupportedExtensions == {ExtJpg, ExtJpeg, ExtPng, ExtGif, ExtPdf, ExtSvg}

\* options.maxSizeInBytes when supplied, 5,242,880 otherwise
Limit ==
    IF call.options.maxSizeInBytes = Undefined THEN 5242880
    ELSE call.options.maxSizeInBytes[1]

FileExists == file.kind # "missing"
FileReadable == file.kind = "regular"
FileSize == BufLen(file.buffer)

\* the first n bytes of the file, NULs of the run written out
FilePrefix(n) ==
    [k \in 1..Min(n, FileSize) |->
        IF k <= Len(file.buffer.bytes) THEN file.buffer.bytes[k] ELSE 0]

\* the two textual views of the file
RawText == BufferToString(file.buffer)
RoundTripText == BufferToString(BufferFromBase64(BufferToBase64(file.buffer)))

Whitelist ==
    IF call.options.pdfWhitelist = Undefined THEN <<>> ELSE call.options.pdfWhitelist[1]

GenericMatch ==
    LET raw == RawText
        roundTrip == RoundTripText
    IN  \E k \in 1..Len(suspiciousPatterns) :
            Test(suspiciousPatterns[k], raw) \/ Test(suspiciousPatterns[k], roundTrip)

SvgMatch ==
    LET raw == RawText
    IN  \E k \in 1..Len(svgSuspiciousPatterns) : Test(svgSuspiciousPatterns[k], raw)

PdfMatch ==
    LET raw == RawText
    IN  \E k \in 1..Len(pdfSuspiciousPatterns) :
            /\ \A i \in 1..Len(Whitelist) : Whitelist[i] # pdfSuspiciousPatterns[k].name
            /\ Test(pdfSuspiciousPatterns[k].pattern, raw)

\* the signature stage, as sections 4.1 and 4.3 of the specification state it
StartsWithBytes(signature) == FilePrefix(Len(signature)) = signature

PdfSignatureStage ==
    LET raw == RawText
    IN  /\ StartsWithBytes(<<37, 80, 68, 70>>)
        /\ Includes(raw, <<37, 80, 68, 70, 45>>)
        /\ Includes(raw, <<37, 37, 69, 79, 70>>)

SvgSignatureStage ==
    LET raw == RawText
        trimmed == Trim(raw)
    IN  \/ StartsWithBytes(<<60, 63, 120, 109, 108>>)
        \/ StartsWithBytes(<<60, 115, 118, 103>>)
        \/ /\ Test(SvgTagPattern, raw)
           /\ \/ StartsWith(trimmed, <<60, 63, 120, 109, 108>>)
              \/ StartsWith(trimmed, <<60, 115, 118, 103>>)

SignatureStage ==
    IF Extension = ExtPdf THEN PdfSignatureStage
    ELSE IF Extension = ExtSvg THEN SvgSignatureStage
    ELSE IF Extension = ExtPng THEN StartsWithBytes(<<137, 80, 78, 71>>)
    ELSE IF Extension = ExtGif THEN StartsWithBytes(<<71, 73, 70, 56>>)
    ELSE \/ StartsWithBytes(<<255, 216, 255, 224>>)
         \/ StartsWithBytes(<<255, 216, 255, 225>>)

SizeMessage(m) == Len(m) = 3 /\ m[1] = "File size exceeds limit of " /\ m[3] = "MB"
ExtensionMessage == <<"Invalid file extension">>
SignatureMessage == <<"Invalid file signature detected">>
PassMessage == <<"Content validation passed">>

\* validateFile got as far as its stages: stat found the file
StagesRun == Done /\ ByValidateFile /\ OptionsGiven /\ FileExists

(***************************************************************************)
(* Claims about validateFile and validateFileContent, checked under Spec.  *)
(***************************************************************************)

\* C1: validateFile returns the verdict of the first stage that fails, in the
\* order size, extension, signature, content scan, and runs no later stage:
\* a file over the limit gets the size message and is never read; a file
\* within the limit with an unsupported extension gets the extension message
\* and is never read; a supported, readable file whose signature stage fails
\* gets "Invalid file signature detected" whatever patterns its content holds.
C1_StageOrder ==
    StagesRun =>
        /\ FileSize > Limit =>
             SizeMessage(result.message) /\ seen.read = Undefined
        /\ (FileSize <= Limit /\ Extension \notin SupportedExtensions) =>
             result.message = ExtensionMessage /\ seen.read = Undefined
        /\ (FileSize <= Limit /\ Extension \in SupportedExtensions
            /\ FileReadable /\ ~SignatureStage) =>
             result.message = SignatureMessage

C1_Witness ==
    /\ StagesRun /\ FileReadable
    /\ Extension \in SupportedExtensions
    /\ ~SignatureStage /\ GenericMatch
    /\ result.message = SignatureMessage

\* C2: validateFile, called with an options object or none, returns
\* {status: true, message: "Content validation passed"} exactly when the file
\* can be read, its size does not exceed the limit, its extension is
\* supported, the signature stage succeeds, no generic pattern matches either
\* textual view and no rule of its own type (SVG; PDF and not whitelisted)
\* matches the raw text; in every other case status is false.
C2_PassIff ==
    (Done /\ ByValidateFile) =>
        LET passes == /\ OptionsGiven /\ FileReadable
                      /\ FileSize <= Limit
                      /\ Extension \in SupportedExtensions
                      /\ SignatureStage
                      /\ ~GenericMatch
                      /\ Extension = ExtSvg => ~SvgMatch
                      /\ Extension = ExtPdf => ~PdfMatch
        IN  /\ passes => result = Return(TRUE, PassMessage)
            /\ ~passes => result.kind = "return" /\ result.status = FALSE

C2_Witness ==
    /\ Done /\ ByValidateFile
    /\ result = Return(TRUE, PassMessage)
    /\ Extension = ExtPdf
    /\ Test(pdfSuspiciousPatterns[8].pattern, RawText)

\* C3: the size stage fails exactly when the file size is strictly greater
\* than the limit, the limit being options.maxSizeInBytes when supplied and
\* 5,242,880 otherwise: a file of exactly the limit passes the stage, a file
\* one byte larger fails it.
C3_SizeBoundary ==
    StagesRun => (SizeMessage(result.message) <=> FileSize > Limit)

C3_Witness ==
    /\ StagesRun
    /\ call.options.maxSizeInBytes = Undefined
    /\ FileSize = 5242880
    /\ ~SizeMessage(result.message)

\* C4: when the size stage fails, the message names the configured limit in
\* MB: it is "File size exceeds limit of <N>MB" with N megabytes equal to the
\* limit.
C4_MessageStatesLimit ==
    (StagesRun /\ SizeMessage(result.message)) =>
        \E n \in 0..(Limit \div 1048576) :
            n * 1048576 = Limit /\ result.message[2] = ToString(n)

\* C5, as stated: validating a file whose extension is unknown raises an error
\* instead of handing the caller a verdict.
C5_UnsupportedRaises ==
    (Done /\ OptionsGiven /\ FileReadable /\ Extension \notin SupportedExtensions) =>
        result.kind = "throw"

\* C5, amended: validating a file whose extension is unknown raises nothing;
\* the caller gets an ordinary verdict with status false, which for a readable
\* file is "Invalid file extension" from validateFile (file within the limit)
\* and "Unsupported file type" from validateFileContent.
C5_UnsupportedIsVerdict ==
    (Done /\ Extension \notin SupportedExtensions) =>
        /\ result.kind = "return"
        /\ result.status = FALSE
        /\ (OptionsGiven /\ FileReadable) =>
             IF ByValidateFile
             THEN FileSize <= Limit => result.message = ExtensionMessage
             ELSE result.message = <<"Unsupported file type">>

C5_Witness ==
    /\ Done /\ ~ByValidateFile
    /\ Extension \notin SupportedExtensions
    /\ result = Return(FALSE, <<"Unsupported file type">>)

\* C6: for a file within the size limit whose extension is none of .jpg,
\* .jpeg, .png, .gif, .pdf, .svg, validateFile returns {status: false,
\* message: "Invalid file extension"} and the file is never read.
C6_InvalidExtension ==
    (StagesRun /\ FileSize <= Limit /\ Extension \notin SupportedExtensions) =>
        /\ result = Return(FALSE, ExtensionMessage)
        /\ seen.read = Undefined

C6_Witness ==
    /\ StagesRun /\ FileReadable /\ GenericMatch
    /\ Extension \notin SupportedExtensions
    /\ result = Return(FALSE, ExtensionMessage)
    /\ seen.read = Undefined

\* C7: neither function ever throws: every call ends by returning a verdict,
\* and a fault met on the way (options that are null, a path stat rejects, a
\* file readFile rejects) ends it with status false and a message that
\* carries the fault's description.
C7_NeverThrows ==
    Done =>
        /\ result.kind = "return"
        /\ (ByValidateFile /\ ~OptionsGiven) =>
             result = Return(FALSE, <<"File validation failed: ",
                                      NullPropertyError("maxSizeInBytes")>>)
        /\ (ByValidateFile /\ OptionsGiven /\ ~FileExists) =>
             result = Return(FALSE, <<"File validation failed: ", FsStat(file).error>>)
        /\ (seen.read # Undefined /\ ~FileReadable) =>
             result = Return(FALSE, <<"Content validation failed: ",
                                      FsReadFile(file).error>>)

C7_Witness ==
    /\ Done /\ ByValidateFile
    /\ file.kind = "unreadable"
    /\ result = Return(FALSE, <<"Content validation failed: ",
                                "EACCES: permission denied, open">>)

\* C9: for a .pdf file that is read, the signature stage succeeds exactly when
\* the buffer starts with 25 50 44 46 and the text contains "%PDF-" and the
\* text contains "%%EOF"; otherwise the verdict is "Invalid file signature
\* detected".
C9_PdfSignature ==
    (Done /\ seen.read # Undefined /\ FileReadable /\ Extension = ExtPdf) =>
        (result.message = SignatureMessage <=> ~PdfSignatureStage)

C9_Witness ==
    /\ Done /\ Extension = ExtPdf /\ FileReadable
    /\ StartsWithBytes(<<37, 80, 68, 70>>)
    /\ Includes(RawText, <<37, 80, 68, 70, 45>>)
    /\ ~Includes(RawText, <<37, 37, 69, 79, 70>>)
    /\ result.message = SignatureMessage

\* C10: for a .svg file that is read, the signature stage succeeds exactly
\* when the buffer starts with the bytes of "<?xml" or of "<svg", or the text
\* holds an <svg ...> open tag and, trimmed of white space, starts with
\* "<?xml" or "<svg".
C10_SvgSignature ==
    (Done /\ seen.read # Undefined /\ FileReadable /\ Extension = ExtSvg) =>
        (result.message = SignatureMessage <=> ~SvgSignatureStage)

C10_Witness ==
    /\ Done /\ Extension = ExtSvg /\ FileReadable
    /\ FileSize > 0 /\ IsWhiteSpace(RawText.chars[1])
    /\ ~StartsWithBytes(<<60, 63, 120, 109, 108>>)
    /\ ~StartsWithBytes(<<60, 115, 118, 103>>)
    /\ seen.read # Undefined
    /\ result.message # SignatureMessage

\* the call was read by validateFileContent: readFile resolved
ContentRead == Done /\ seen.read # Undefined /\ FileReadable

\* C11: for a .jpg, .jpeg, .png or .gif file that is read, the signature
\* stage succeeds exactly when the buffer starts with a signature of the
\* type's set (FF D8 FF E0 or FF D8 FF E1 for .jpg and .jpeg alike, 89 50 4E
\* 47 for .png, 47 49 46 38 for .gif); the text of the file plays no part.
C11_ImageSignature ==
    (ContentRead /\ Extension \in {ExtJpg, ExtJpeg, ExtPng, ExtGif}) =>
        LET matches ==
              IF Extension \in {ExtJpg, ExtJpeg}
              THEN \/ FilePrefix(4) = <<255, 216, 255, 224>>
                   \/ FilePrefix(4) = <<255, 216, 255, 225>>
              ELSE IF Extension = ExtPng THEN FilePrefix(4) = <<137, 80, 78, 71>>
              ELSE FilePrefix(4) = <<71, 73, 70, 56>>
        IN  result.message = SignatureMessage <=> ~matches

C11_Witness ==
    /\ ContentRead /\ Extension = ExtJpeg
    /\ FilePrefix(4) = <<255, 216, 255, 225>>
    /\ result = Return(TRUE, PassMessage)

\* C12: the generic patterns are tested against both textual views for every
\* supported type and no whitelist exempts them: a file that is read, passes
\* the signature stage and matches a generic pattern in either view is
\* rejected with "Suspicious pattern detected: " followed by a generic
\* pattern that matches one of its views, whatever pdfWhitelist holds.
C12_GenericNeverExempt ==
    (ContentRead /\ Extension \in SupportedExtensions /\ SignatureStage
     /\ GenericMatch) =>
        /\ result.kind = "return" /\ result.status = FALSE
        /\ Len(result.message) = 2
        /\ result.message[1] = "Suspicious pattern detected: "
        /\ \E k \in 1..Len(suspiciousPatterns) :
              /\ result.message[2] = suspiciousPatterns[k].src
              /\ \/ Test(suspiciousPatterns[k], RawText)
                 \/ Test(suspiciousPatterns[k], RoundTripText)

C12_Witness ==
    /\ ContentRead /\ Extension = ExtPdf
    /\ Len(Whitelist) = 8
    /\ Test(suspiciousPatterns[1], RawText)
    /\ result = Return(FALSE, <<"Suspicious pattern detected: ", suspiciousPatterns[1].src>>)

\* the PDF-specific checks are reached: a .pdf that is read, passes the
\* signature stage and matches no generic pattern, options not null
PdfRulesReached ==
    /\ ContentRead /\ OptionsGiven /\ Extension = ExtPdf
    /\ PdfSignatureStage /\ ~GenericMatch

\* the identifiers of the README's list
PdfIdentifiers ==
    {"Metadata", "OpenAction", "JS", "JavaScript", "Launch", "EmbeddedFile", "XFA", "Annots"}

\* the PDF rule the message names: 0 if it names none
NamedPdfRule ==
    IF Len(result.message) = 2 /\ result.message[1] = "Suspicious PDF pattern detected: "
       /\ \E k \in 1..Len(pdfSuspiciousPatterns) :
             pdfSuspiciousPatterns[k].pattern.src = result.message[2]
    THEN CHOOSE k \in 1..Len(pdfSuspiciousPatterns) :
             pdfSuspiciousPatterns[k].pattern.src = result.message[2]
    ELSE 0

\* C13: a PDF rule is left out exactly when its identifier is an entry of
\* pdfWhitelist, letter for letter; every other rule is evaluated and fails
\* the validation when it matches.  So the verdict of a .pdf that reaches its
\* rules is a failure naming a PDF rule exactly when a rule whose identifier
\* is not an entry of the whitelist matches the raw text, the rule named is
\* never one whose identifier is an entry, and an entry such as "metadata" or
\* "Unknown" exempts nothing.
C13_WhitelistExact ==
    PdfRulesReached =>
        LET listed(k) == \E i \in 1..Len(Whitelist) :
                            Whitelist[i] = pdfSuspiciousPatterns[k].name
            live == {k \in 1..Len(pdfSuspiciousPatterns) :
                       ~listed(k) /\ Test(pdfSuspiciousPatterns[k].pattern, RawText)}
        IN  /\ {pdfSuspiciousPatterns[k].name : k \in 1..Len(pdfSuspiciousPatterns)}
                 = PdfIdentifiers
            /\ live # {} <=> result.status = FALSE
            /\ live # {} <=> NamedPdfRule # 0
            /\ NamedPdfRule # 0 => NamedPdfRule \in live
            /\ live = {} => result = Return(TRUE, PassMessage)

C13_Witness ==
    /\ PdfRulesReached
    /\ Whitelist = <<"metadata">>
    /\ result = Return(FALSE, <<"Suspicious PDF pattern detected: ", "/Metadata/">>)

\* the rule with letter case set aside
AnyCase(pattern) == [pattern EXCEPT !.ci = TRUE]

\* C15: every rule of the content scan, generic, SVG or PDF, matches a text
\* that holds its token in any letter case: a file that reaches a rule whose
\* token it holds, in whatever case, is rejected.
C15_CaseInsensitive ==
    /\ (ContentRead /\ Extension \in SupportedExtensions /\ SignatureStage
        /\ \E k \in 1..Len(suspiciousPatterns) :
              Test(AnyCase(suspiciousPatterns[k]), RawText)) =>
           result.status = FALSE
    /\ (ContentRead /\ Extension = ExtSvg /\ SignatureStage
        /\ \E k \in 1..Len(svgSuspiciousPatterns) :
              Test(AnyCase(svgSuspiciousPatterns[k]), RawText)) =>
           result.status = FALSE
    /\ (PdfRulesReached
        /\ \E k \in 1..Len(pdfSuspiciousPatterns) :
              /\ \A i \in 1..Len(Whitelist) : Whitelist[i] # pdfSuspiciousPatterns[k].name
              /\ Test(AnyCase(pdfSuspiciousPatterns[k].pattern), RawText)) =>
           result.status = FALSE

\* C16: with options.checkContent false the content scan does not run: a
\* file that passes the size, extension and signature stages is accepted
\* whatever its content holds.
C16_CheckContentOff ==
    (Done /\ ByValidateFile /\ FileReadable
     /\ call.options.checkContent = Some(FALSE)
     /\ FileSize <= Limit /\ Extension \in SupportedExtensions /\ SignatureStage) =>
        result = Return(TRUE, PassMessage)

\* C18: the SVG rules bear on .svg files only and the PDF rules on .pdf files
\* only.  A file that is read, passes the signature stage and matches no
\* generic pattern passes when it is a .jpg, .jpeg, .png or .gif, whatever
\* SVG or PDF tokens it holds; a .svg passes exactly when no SVG rule matches
\* and a .pdf exactly when no PDF rule outside the whitelist matches.  So the
\* verdict of a file that is not a .pdf is the same for every pdfWhitelist.
C18_TypeRulesOwnType ==
    (ContentRead /\ Extension \in SupportedExtensions /\ SignatureStage
     /\ ~GenericMatch) =>
        /\ Extension \in {ExtJpg, ExtJpeg, ExtPng, ExtGif} =>
              result = Return(TRUE, PassMessage)
        /\ Extension = ExtSvg =>
              (result = Return(TRUE, PassMessage) <=> ~SvgMatch)
        /\ (Extension = ExtPdf /\ OptionsGiven) =>
              (result = Return(TRUE, PassMessage) <=> ~PdfMatch)

C18_Witness ==
    /\ ContentRead /\ Extension = ExtJpg
    /\ Whitelist = <<"Unknown">>
    /\ Test(pdfSuspiciousPatterns[8].pattern, RawText)
    /\ Test(svgSuspiciousPatterns[1], RawText)
    /\ result = Return(TRUE, PassMessage)

\* C19: a verdict that fails on a pattern names a rule of the set its prefix
\* stands for, and that rule matches the text that was scanned; a PDF rule
\* that is named is not whitelisted.
C19_MessageNamesMatch ==
    (ContentRead /\ Len(result.message) = 2) =>
        /\ result.message[1] = "Suspicious pattern detected: " =>
              \E k \in 1..Len(suspiciousPatterns) :
                 /\ result.message[2] = suspiciousPatterns[k].src
                 /\ \/ Test(suspiciousPatterns[k], RawText)
                    \/ Test(suspiciousPatterns[k], RoundTripText)
        /\ result.message[1] = "Suspicious SVG pattern detected: " =>
              \E k \in 1..Len(svgSuspiciousPatterns) :
                 /\ result.message[2] = svgSuspiciousPatterns[k].src
                 /\ Test(svgSuspiciousPatterns[k], RawText)
        /\ result.message[1] = "Suspicious PDF pattern detected: " =>
              \E k \in 1..Len(pdfSuspiciousPatterns) :
                 /\ result.message[2] = pdfSuspiciousPatterns[k].pattern.src
                 /\ Test(pdfSuspiciousPatterns[k].pattern, RawText)
                 /\ \A i \in 1..Len(Whitelist) :
                       Whitelist[i] # pdfSuspiciousPatterns[k].name

C19_Witness ==
    /\ ContentRead /\ Whitelist = <<"Metadata">>
    /\ Test(pdfSuspiciousPatterns[8].pattern, RawText)
    /\ result = Return(FALSE, <<"Suspicious PDF pattern detected: ", "/JavaScript/">>)

\* C20: for a .pdf that matches the Metadata and the JavaScript rule and no
\* generic rule, validateFile fails on Metadata with no whitelist, on
\* JavaScript with pdfWhitelist ["Metadata"], and with pdfWhitelist
\* ["Metadata", "JavaScript"] still fails if another PDF rule matches.
C20_PeelOrder ==
    (PdfRulesReached /\ ByValidateFile
     /\ Test(pdfSuspiciousPatterns[8].pattern, RawText)
     /\ Test(pdfSuspiciousPatterns[2].pattern, RawText)) =>
        /\ Whitelist = <<>> =>
              result = Return(FALSE, <<"Suspicious PDF pattern detected: ", "/Metadata/">>)
        /\ Whitelist = <<"Metadata">> =>
              result = Return(FALSE, <<"Suspicious PDF pattern detected: ", "/JavaScript/">>)
        /\ (Whitelist = <<"Metadata", "JavaScript">>
            /\ \E k \in {1, 3, 4, 5, 6, 7} : Test(pdfSuspiciousPatterns[k].pattern, RawText)) =>
              result.status = FALSE

(***************************************************************************)
(* checkFileSignature on its own: any buffer against any list of           *)
(* signatures.                                                             *)
(***************************************************************************)
MaxBufferLength == 3
MaxSignatureLength == 2
MaxSignatures == 2

SeqsUpTo(S, n) == UNION { [1..k -> S] : k \in 0..n }

SignatureBytes == {0, 255}

SignatureBuffers ==
    { Regular(bytes, pad) : bytes \in SeqsUpTo(SignatureBytes, MaxBufferLength),
                            pad \in {0, 2} }

SignatureLists == SeqsUpTo(SeqsUpTo(SignatureBytes, MaxSignatureLength), MaxSignatures)

InitSignature ==
    /\ file \in SignatureBuffers
    /\ pc = "idle"
    /\ call = NoCall
    /\ result = NoResult
    /\ seen = NothingSeen
    /\ history = <<>>

\* checkFileSignature(buffer, signatures) is called and returns
CallCheckFileSignature(signatures) ==
    /\ pc = "idle"
    /\ pc' = "done"
    /\ call' = [api |-> "checkFileSignature", signatures |-> signatures]
    /\ result' = [kind |-> "return",
                  status |-> checkFileSignature(file.buffer, signatures),
                  message |-> <<>>]
    /\ UNCHANGED <<file, seen, history>>

NextSignature ==
    \/ \E signatures \in SignatureLists : CallCheckFileSignature(signatures)
    \/ Finish

SpecSignature == InitSignature /\ [][NextSignature]_vars

Orderings(n) == { p \in [1..n -> 1..n] : \A i, j \in 1..n : p[i] = p[j] => i = j }

\* C8: checkFileSignature(buffer, signatures) is true exactly when some
\* signature of the list is no longer than the buffer and equals the buffer's
\* first bytes position by position; a buffer shorter than a signature does
\* not match it; and the result is the same for every order of the list.
C8_SignatureMatch ==
    (Done /\ call.api = "checkFileSignature") =>
        LET signatures == call.signatures
            n == Len(signatures)
        IN  /\ result.status <=>
                 \E k \in 1..n :
                    /\ FileSize >= Len(signatures[k])
                    /\ FilePrefix(Len(signatures[k])) = signatures[k]
            /\ \A p \in Orderings(n) :
                 checkFileSignature(file.buffer, [i \in 1..n |-> signatures[p[i]]])
                 = result.status

C8_Witness ==
    /\ Done /\ call.api = "checkFileSignature"
    /\ Len(call.signatures) = 2
    /\ FileSize = 1
    /\ \E k \in 1..2 :
          /\ Len(call.signatures[k]) = 2
          /\ call.signatures[k][1] = FilePrefix(1)[1]
    /\ result.status = FALSE

(***************************************************************************)
(* Successive calls of validateFile on an unchanged file, each noted with  *)
(* its verdict when it returns.                                            *)
(***************************************************************************)
MaxHistory == 2

\* a well-formed PDF followed by some of Tokens; a JPEG with <Script>; no file
HistoryFiles ==
    { Regular(Headers[6] \o Concat(chosen, 1, Tokens), 0) :
        chosen \in { {}, {3}, {4}, {3, 4}, {2, 3}, {3, 5} } }
    \cup { Regular(Headers[2] \o Tokens[2], 0),
           [kind |-> "missing", buffer |-> [bytes |-> <<>>, pad |-> 0]] }

HistoryCalls ==
    { [path |-> <<97>> \o ext, options |-> OptionsOf("undefined", Undefined, Undefined)] :
        ext \in {ExtPdf, ExtJpg, <<46, 116, 120, 116>>} }
    \cup { [path |-> <<97>> \o ExtPdf, options |-> OptionsOf("object", Undefined, Some(w))] :
             w \in { <<"Metadata">>, <<"JavaScript">>, <<"Metadata", "JavaScript">> } }

InitHistory ==
    /\ file \in HistoryFiles
    /\ pc = "idle"
    /\ call = NoCall
    /\ result = NoResult
    /\ seen = NothingSeen
    /\ history = <<>>

\* the caller takes the result, and the call is noted while there is room
FinishNoted ==
    /\ pc = "done"
    /\ pc' = "idle"
    /\ history' = IF Len(history) < MaxHistory
                  THEN Append(history, [call |-> call, result |-> result])
                  ELSE history
    /\ call' = NoCall
    /\ result' = NoResult
    /\ seen' = NothingSeen
    /\ UNCHANGED file

NextHistory ==
    \/ \E c \in HistoryCalls : CallValidateFile(c.path, c.options)
    \/ StatSettles
    \/ ReadSettles
    \/ FinishNoted

SpecHistory == InitHistory /\ [][NextHistory]_vars

\* the entries of a pdfWhitelist option, as a set
Entries(options) ==
    IF options.pdfWhitelist = Undefined THEN {}
    ELSE {options.pdfWhitelist[1][i] : i \in 1..Len(options.pdfWhitelist[1])}

\* the call in flight is the noted call h with identifier X added to its
\* whitelist and nothing else changed, and h failed on the PDF rule X
AddsFailedIdentifier(h, X) ==
    /\ h.call.api = call.api /\ h.call.path = call.path
    /\ h.call.options.maxSizeInBytes = call.options.maxSizeInBytes
    /\ X \notin Entries(h.call.options)
    /\ Entries(call.options) = Entries(h.call.options) \cup {X}
    /\ h.result.status = FALSE
    /\ Len(h.result.message) = 2
    /\ h.result.message[1] = "Suspicious PDF pattern detected: "
    /\ \E k \in 1..Len(pdfSuspiciousPatterns) :
          /\ pdfSuspiciousPatterns[k].name = X
          /\ pdfSuspiciousPatterns[k].pattern.src = h.result.message[2]

\* C14: for a PDF that fails on the PDF rule X, adding X to pdfWhitelist with
\* every other input as it was turns the verdict into a pass exactly when no
\* other rule that is not whitelisted matches; a well-formed PDF holding
\* /Metadata and no other token fails on Metadata with no whitelist and
\* passes with pdfWhitelist ["Metadata"].
C14_WhitelistMonotone ==
    Done =>
        \A i \in 1..Len(history) : \A X \in PdfIdentifiers :
            AddsFailedIdentifier(history[i], X) =>
                /\ result.status = TRUE <=> ~(GenericMatch \/ PdfMatch)
                /\ result.status = TRUE => result.message = PassMessage

C14_Witness ==
    /\ Done /\ Len(history) > 0
    /\ AddsFailedIdentifier(history[1], "Metadata")
    /\ history[1].call.options.pdfWhitelist = Undefined
    /\ history[1].result.message[2] = "/Metadata/"
    /\ result = Return(TRUE, PassMessage)

MaxViewLength == 3

\* NUL, "<", a lead byte, a continuation byte, a byte no sequence holds
ViewBytes == {0, 60, 195, 169, 255}

\* every short buffer, and <Script> between bytes that do not decode
ViewBuffers ==
    { Regular(bytes, pad) : bytes \in SeqsUpTo(ViewBytes, MaxViewLength), pad \in {0, 1} }
    \cup { Regular(<<255>> \o Tokens[2] \o tail, 0) : tail \in {<<>>, <<195>>, <<0, 169>>} }

InitViews ==
    /\ file \in ViewBuffers
    /\ pc = "idle"
    /\ call = NoCall
    /\ result = NoResult
    /\ seen = NothingSeen
    /\ history = <<>>

\* the two conversions at the head of validateFileContent, on the buffer read
DecodeViews ==
    /\ pc = "idle"
    /\ pc' = "done"
    /\ call' = [api |-> "views"]
    /\ LET fileBuffer == file.buffer
           fileContent == BufferToString(fileBuffer)
           base64Content == BufferToBase64(fileBuffer)
           decodedContent == BufferToString(BufferFromBase64(base64Content))
       IN  result' = [kind |-> "views", fileContent |-> fileContent,
                      decodedContent |-> decodedContent]
    /\ UNCHANGED <<file, seen, history>>

NextViews ==
    \/ DecodeViews
    \/ Finish

SpecViews == InitViews /\ [][NextViews]_vars

\* the code units of a string, its run of NULs written out
Units(s) == s.chars \o Nuls(s.pad)

\* C21: for every buffer, the text decoded after the base64 round trip is the
\* text decoded from the bytes themselves, unit for unit, so a generic
\* pattern matches one view exactly when it matches the other.
C21_ViewsIdentical ==
    (Done /\ call.api = "views") =>
        /\ Units(result.decodedContent) = Units(result.fileContent)
        /\ \A k \in 1..Len(suspiciousPatterns) :
              Test(suspiciousPatterns[k], result.decodedContent)
              <=> Test(suspiciousPatterns[k], result.fileContent)

C21_Witness ==
    /\ Done /\ call.api = "views"
    /\ FileSize % 3 # 0
    /\ \E i \in 1..Len(result.fileContent.chars) : result.fileContent.chars[i] = 65533
    /\ Test(suspiciousPatterns[1], result.decodedContent)
    /\ Units(result.decodedContent) = Units(result.fileContent)

(***************************************************************************)
(* validateFile beside a writer: another process may replace the file at   *)
(* any moment, also between the settling of fs.stat and that of            *)
(* fs.readFile.                                                            *)
(***************************************************************************)
\* a JPEG of 4 bytes, of 13 bytes, with <Script>, of 5 MiB + 1; a PDF
RaceFiles ==
    { Regular(Headers[2], 0),
      Regular(Headers[2] \o Tokens[3], 0),
      Regular(Headers[2] \o Tokens[2], 0),
      Regular(Headers[2], DEFAULT_MAX_SIZE + 1 - Len(Headers[2])),
      Regular(Headers[6], 0) }

RaceCalls ==
    { [path |-> <<97>> \o ExtJpg, options |-> OptionsOf("undefined", Undefined, Undefined)],
      [path |-> <<97>> \o ExtJpg, options |-> OptionsOf("object", Some(4), Undefined)],
      [path |-> <<97>> \o ExtPdf, options |-> OptionsOf("undefined", Undefined, Undefined)] }

InitRace ==
    /\ file \in RaceFiles
    /\ pc = "idle"
    /\ call = NoCall
    /\ result = NoResult
    /\ seen = NothingSeen
    /\ history = <<>>

\* the other process replaces the file
WriterWrites(f) ==
    /\ f # file
    /\ file' = f
    /\ UNCHANGED <<pc, call, result, seen, history>>

NextRace ==
    \/ \E c \in RaceCalls : CallValidateFile(c.path, c.options)
    \/ StatSettles
    \/ ReadSettles
    \/ Finish
    \/ \E f \in RaceFiles : WriterWrites(f)

SpecRace == InitRace /\ [][NextRace]_vars

\* C22: the size validateFile checks is the size of the content it scans,
\* whatever a concurrent writer does between its stat and its read: a verdict
\* with status true means the buffer that was read, signature-checked and
\* scanned is no longer than the limit.
C22_SizeOfScanned ==
    (Done /\ ByValidateFile /\ result.status = TRUE) =>
        /\ seen.read # Undefined
        /\ BufLen(seen.read[1].buffer) <= Limit

(***************************************************************************)
(* Paths of many spellings: the extension in upper, lower and mixed case,  *)
(* two extensions, a dot file, a trailing dot, a dot in a directory name.  *)
(***************************************************************************)
DispatchPaths ==
    { <<97>> \o ExtPdf,                                   \* a.pdf
      <<97, 46, 80, 68, 70>>,                              \* a.PDF
      <<97, 46, 80, 100, 102>>,                            \* a.Pdf
      <<65, 46, 112, 100, 70>>,                            \* A.pdF
      <<97>> \o ExtJpg,                                   \* a.jpg
      <<97, 46, 74, 80, 71>>,                              \* a.JPG
      <<97, 46, 83, 118, 71>>,                             \* a.SvG
      <<97>> \o ExtSvg \o <<46, 80, 68, 70>>,            \* a.svg.PDF
      <<97>> \o ExtPdf \o <<46, 74, 112, 103>>,          \* a.pdf.Jpg
      ExtPdf,                                              \* .pdf
      <<97>> \o ExtPdf \o <<46>>,                        \* a.pdf.
      <<120>> \o ExtPdf \o <<47, 97>>,                   \* x.pdf/a
      <<97, 46, 116, 120, 116>>,                           \* a.txt
      <<97, 46, 84, 88, 84>> }                             \* a.TXT

\* a PDF, a PDF with /Metadata, a PDF with <Script>, a JPEG, an SVG, a JPEG of
\* 5 MiB + 1
DispatchFiles ==
    { Regular(Headers[6], 0),
      Regular(Headers[6] \o Tokens[3], 0),
      Regular(Headers[6] \o Tokens[2], 0),
      Regular(Headers[2], 0),
      Regular(Headers[11], 0),
      Regular(Headers[2], DEFAULT_MAX_SIZE + 1 - Len(Headers[2])) }

DispatchCalls ==
    { [path |-> filePath, options |-> options] :
        filePath \in DispatchPaths,
        options \in { OptionsOf("undefined", Undefined, Undefined),
                      OptionsOf("object", Undefined, Some(<<"Metadata">>)) } }

InitPaths ==
    /\ file \in DispatchFiles
    /\ pc = "idle"
    /\ call = NoCall
    /\ result = NoResult
    /\ seen = NothingSeen
    /\ history = <<>>

NextPaths ==
    \/ \E c \in DispatchCalls : CallValidateFile(c.path, c.options)
    \/ \E c \in DispatchCalls : CallValidateFileContent(c.path, c.options)
    \/ StatSettles
    \/ ReadSettles
    \/ Finish

SpecPaths == InitPaths /\ [][NextPaths]_vars

\* what the call in progress returns for the file when it is made with
\* filePath in place of its own path
VerdictFor(filePath) ==
    IF call.api = "validateFile"
    THEN LET start == validateFileStart(filePath, call.options, FsStat(file))
         IN  IF start.kind = "await"
             THEN validateFileEnd(validateFileContent(filePath, call.options,
                                                      FsReadFile(file)))
             ELSE start
    ELSE validateFileContent(filePath, call.options, FsReadFile(file))

\* C23: the type dispatch depends only on the lower-cased final extension of
\* the path.  A call on a readable file returns what the same call returns
\* for the path "a" followed by that extension, so paths that differ in the
\* letter case of the extension get the same verdict; the allow-list of
\* validateFile and the dispatch of validateFileContent go by the same type:
\* "Invalid file extension" and "Unsupported file type" are returned for
\* extensions outside the six only, and "Unsupported file type" is never
\* returned through validateFile.
C23_DispatchByLowerCasedExtension ==
    (Done /\ call.api \in {"validateFile", "validateFileContent"} /\ FileReadable) =>
        /\ result = VerdictFor(<<97>> \o Extension)
        /\ ByValidateFile => result.message # <<"Unsupported file type">>
        /\ result.message \in {<<"Invalid file extension">>, <<"Unsupported file type">>}
               => Extension \notin SupportedExtensions
        /\ (Extension \notin SupportedExtensions /\ seen.read # Undefined)
               => /\ ~ByValidateFile
                  /\ result = Return(FALSE, <<"Unsupported file type">>)
        /\ (Extension \notin SupportedExtensions /\ ByValidateFile /\ FileSize <= Limit)
               => result = Return(FALSE, <<"Invalid file extension">>)

\* validateFile('a.PDF') or the like passes a PDF
C23_Witness ==
    /\ Done
    /\ ByValidateFile
    /\ FileReadable
    /\ ExtName(call.path) # Extension
    /\ Extension = ExtPdf
    /\ result = Return(TRUE, <<"Content validation passed">>)

=============================================================================
